---- MODULE Spec2Model ----
(***************************************************************************)
(* State-machine model of SolidArx-Framework's memory manager              *)
(* (src/core/memory_management.rs): MemoryManager::new, allocate and       *)
(* deallocate, with the caller that owns the buffers handed out.           *)
(*                                                                         *)
(* A buffer (Box<[u8]>) is a record [id, len, zero]: id is the identity of *)
(* the heap allocation, len its fixed length, zero whether every byte is   *)
(* still 0.  Option<VecDeque<..>> is a record [present, buffers].          *)
(***************************************************************************)
EXTENDS Integers, Sequences, FiniteSets, TLC

\* ------------------------------------------------------------------ bounds
MaxSize == 1        \* byte counts (buffer_size, requested size) range over 0..MaxSize
MaxPool == 2        \* pool_size ranges over 0..MaxPool
MaxScale == 1       \* scale multiplier ranges over 1..MaxScale
MaxFresh == 1       \* buffers created after construction (cap on the id counter)
NewMaxSize == 3     \* buffer_size range when only MemoryManager::new is exercised
NewMaxPool == 6     \* pool_size range when only MemoryManager::new is exercised
UsizeBits == 29     \* width of usize in the sizing functions (the profile defaults fit in half of it)
MaxReads == 3       \* lines read from stdin by one sizing call
MaxAttempts == 4    \* max_attempts ranges over 0..MaxAttempts
MaxTimeout == 2     \* retry_timeout ranges over 0..MaxTimeout seconds

Sizes == 0..MaxSize
PoolSizes == 0..MaxPool

\* ------------------------------------------------------------------ types
AppTypes == {"WebApp", "ApiBackend", "DesktopApp", "AutomationScript", "EmbeddedSystem", "Other"}
SupportedAppTypes == {"WebApp", "ApiBackend", "DesktopApp", "AutomationScript", "EmbeddedSystem"}
AllocationStrategy == {"Standard", "PoolBased", "CustomEmbedded"}
NoStrategy == "None"
Overrides == AllocationStrategy \cup {NoStrategy}
\* scale_multiplier is stored by new and read by no method of MemoryManager: its range
\* is exercised where new alone runs (NewMemoryConfigs)
MemoryConfigs == [buffer_size : Sizes, pool_size : PoolSizes, scale_multiplier : {1}]
NewMemoryConfigs ==
    [buffer_size : 0..NewMaxSize, pool_size : 0..NewMaxPool, scale_multiplier : 1..MaxScale]

NoBuffer == [id |-> 0, len |-> 0, zero |-> TRUE]
NoPool == [present |-> FALSE, buffers |-> <<>>]
NoConfig == [buffer_size |-> 0, pool_size |-> 0, scale_multiplier |-> 0]

\* vec![0u8; len].into_boxed_slice(): a new allocation, all bytes zero
ZeroedBuffer(id, len) == [id |-> id, len |-> len, zero |-> TRUE]

VARIABLES
    pc,                           \* "start" | "ready" | "failed" | "panicked"
    app_type, config,             \* the arguments of MemoryManager::new
    default_allocation_strategy,  \* MemoryManager fields
    pool,
    memory_config,
    held,                         \* buffers owned by the caller
    fresh,                        \* number of buffers created after construction
    ret,                          \* the last call: its arguments and its result
    allocsOnly,                   \* k if the calls since new are exactly k allocate(None, _), else -1
    run,                          \* bookkeeping of a run of allocate(None, _)/deallocate pairs
    ahead,                        \* the ids of the pooled buffers, in the order they entered the pool
    overtaken,                    \* the ids that were still ahead of the buffer the last allocate took from the pool
    net,                          \* deallocate calls minus allocates served from the pool
    sz,                           \* a call of define_buffer_size / define_pool_size / define_multiplier
    conn                          \* a call of ConnectionManager::initialize_connection

vars == <<pc, app_type, config, default_allocation_strategy, pool, memory_config,
          held, fresh, ret, allocsOnly, run, ahead, overtaken, net, sz, conn>>

memoryVars == <<pc, app_type, config, default_allocation_strategy, pool, memory_config,
                held, fresh, ret, allocsOnly, run, ahead, overtaken, net>>

\* --------------------------------------------------------- MemoryManager::new
SelectStrategyStdPool(app) ==
    CASE app \in {"WebApp", "ApiBackend", "DesktopApp"} -> "PoolBased"
      [] app = "AutomationScript" -> "Standard"
      [] app = "EmbeddedSystem" -> "CustomEmbedded"
      [] OTHER -> "Unsupported"

SelectStrategyLenient(app) ==
    CASE app \in {"WebApp", "ApiBackend"} -> "PoolBased"
      [] app \in {"DesktopApp", "AutomationScript"} -> "Standard"
      [] app = "EmbeddedSystem" -> "CustomEmbedded"
      [] OTHER -> "Standard"

\* match app_type { ... } of new; "Unsupported" is the arm that returns Err
SelectStrategy(app) ==
    CASE app \in {"WebApp", "ApiBackend"} -> "PoolBased"
      [] app = "DesktopApp" -> "Standard"
      [] app = "AutomationScript" -> "Standard"
      [] app = "EmbeddedSystem" -> "CustomEmbedded"
      [] OTHER -> "Unsupported"

BufferCountCeil(cfg) == (cfg.pool_size + cfg.buffer_size - 1) \div cfg.buffer_size

\* let buffer_count = memory_config.pool_size / memory_config.buffer_size (buffer_size # 0)
BufferCount(cfg) == cfg.pool_size \div cfg.buffer_size

BuildPoolAlways(strategy, cfg) ==
    IF strategy = "PoolBased"
    THEN [present |-> TRUE,
          buffers |-> [i \in 1..BufferCount(cfg) |-> ZeroedBuffer(i, cfg.buffer_size)]]
    ELSE [present |-> TRUE, buffers |-> <<>>]

BuildPoolNever(strategy, cfg) == NoPool

\* let pool = if let PoolBased = strategy { Some(buffers) } else { None }
BuildPool(strategy, cfg) ==
    IF strategy = "PoolBased"
    THEN [present |-> TRUE,
          buffers |-> [i \in 1..BufferCount(cfg) |-> ZeroedBuffer(i, cfg.buffer_size)]]
    ELSE NoPool

\* the integer division panics when buffer_size is 0 and the pool is built
NewPanics(strategy, cfg) == strategy = "PoolBased" /\ cfg.buffer_size = 0

\* ids 1..InitialCount are the buffers created by new
InitialCount == IF pool.present /\ config.buffer_size # 0 THEN BufferCount(config) ELSE 0

\* ---------------------------------------------------- MemoryManager::allocate
\* strategy.unwrap_or(self.default_allocation_strategy.clone())
EffectiveStrategy(override, default) ==
    IF override = NoStrategy THEN default ELSE override

DefaultAfterAllocatePersist(override, default) ==
    IF override = NoStrategy THEN default ELSE override

\* allocate works on a clone of the default strategy and never assigns the field
DefaultAfterAllocate(override, default) == default

Outcome(result, buffer, p, isFresh) ==
    [result |-> result, buffer |-> buffer, pool |-> p, isFresh |-> isFresh]

Some(buffers) == [present |-> TRUE, buffers |-> buffers]

Last(s) == s[Len(s)]
Front(s) == SubSeq(s, 1, Len(s) - 1)

\* pop_back instead of pop_front
AllocateOutcomePopBack(strategy, p, cfg, size, id) ==
    CASE strategy = "Standard" -> Outcome("Ok", ZeroedBuffer(id, size), p, TRUE)
      [] strategy = "PoolBased" ->
            IF p.present
            THEN IF Len(p.buffers) > 0
                 THEN Outcome("Ok", Last(p.buffers), Some(Front(p.buffers)), FALSE)
                 ELSE Outcome("Ok", ZeroedBuffer(id, size), p, TRUE)
            ELSE Outcome("ResourceAllocationError", NoBuffer, p, FALSE)
      [] strategy = "CustomEmbedded" ->
            Outcome("Ok", ZeroedBuffer(id, cfg.buffer_size), p, TRUE)

\* the fallback of an exhausted pool allocates buffer_size bytes instead of size
AllocateOutcomeFallbackConfigured(strategy, p, cfg, size, id) ==
    CASE strategy = "Standard" -> Outcome("Ok", ZeroedBuffer(id, size), p, TRUE)
      [] strategy = "PoolBased" ->
            IF p.present
            THEN IF Len(p.buffers) > 0
                 THEN Outcome("Ok", Head(p.buffers), Some(Tail(p.buffers)), FALSE)
                 ELSE Outcome("Ok", ZeroedBuffer(id, cfg.buffer_size), p, TRUE)
            ELSE Outcome("ResourceAllocationError", NoBuffer, p, FALSE)
      [] strategy = "CustomEmbedded" ->
            Outcome("Ok", ZeroedBuffer(id, cfg.buffer_size), p, TRUE)

\* Standard allocates buffer_size bytes instead of size
AllocateOutcomeStandardConfigured(strategy, p, cfg, size, id) ==
    CASE strategy = "Standard" -> Outcome("Ok", ZeroedBuffer(id, cfg.buffer_size), p, TRUE)
      [] strategy = "PoolBased" ->
            IF p.present
            THEN IF Len(p.buffers) > 0
                 THEN Outcome("Ok", Head(p.buffers), Some(Tail(p.buffers)), FALSE)
                 ELSE Outcome("Ok", ZeroedBuffer(id, size), p, TRUE)
            ELSE Outcome("ResourceAllocationError", NoBuffer, p, FALSE)
      [] strategy = "CustomEmbedded" ->
            Outcome("Ok", ZeroedBuffer(id, cfg.buffer_size), p, TRUE)

\* the front buffer is handed out but stays in the pool
AllocateOutcomePeek(strategy, p, cfg, size, id) ==
    CASE strategy = "Standard" -> Outcome("Ok", ZeroedBuffer(id, size), p, TRUE)
      [] strategy = "PoolBased" ->
            IF p.present
            THEN IF Len(p.buffers) > 0
                 THEN Outcome("Ok", Head(p.buffers), p, FALSE)
                 ELSE Outcome("Ok", ZeroedBuffer(id, size), p, TRUE)
            ELSE Outcome("ResourceAllocationError", NoBuffer, p, FALSE)
      [] strategy = "CustomEmbedded" ->
            Outcome("Ok", ZeroedBuffer(id, cfg.buffer_size), p, TRUE)

\* CustomEmbedded allocates size bytes instead of buffer_size
AllocateOutcomeEmbeddedRequested(strategy, p, cfg, size, id) ==
    CASE strategy = "Standard" -> Outcome("Ok", ZeroedBuffer(id, size), p, TRUE)
      [] strategy = "PoolBased" ->
            IF p.present
            THEN IF Len(p.buffers) > 0
                 THEN Outcome("Ok", Head(p.buffers), Some(Tail(p.buffers)), FALSE)
                 ELSE Outcome("Ok", ZeroedBuffer(id, size), p, TRUE)
            ELSE Outcome("ResourceAllocationError", NoBuffer, p, FALSE)
      [] strategy = "CustomEmbedded" -> Outcome("Ok", ZeroedBuffer(id, size), p, TRUE)

\* an absent pool is treated like an exhausted one
AllocateOutcomeAbsentFallback(strategy, p, cfg, size, id) ==
    CASE strategy = "Standard" -> Outcome("Ok", ZeroedBuffer(id, size), p, TRUE)
      [] strategy = "PoolBased" ->
            IF p.present /\ Len(p.buffers) > 0
            THEN Outcome("Ok", Head(p.buffers), Some(Tail(p.buffers)), FALSE)
            ELSE Outcome("Ok", ZeroedBuffer(id, size), p, TRUE)
      [] strategy = "CustomEmbedded" ->
            Outcome("Ok", ZeroedBuffer(id, cfg.buffer_size), p, TRUE)

\* the match of allocate on the effective strategy: the value returned, the pool
\* afterwards, and whether a new allocation (of identity id) was made
AllocateOutcome(strategy, p, cfg, size, id) ==
    CASE strategy = "Standard" -> Outcome("Ok", ZeroedBuffer(id, size), p, TRUE)
      [] strategy = "PoolBased" ->
            IF p.present
            THEN IF Len(p.buffers) > 0
                 THEN Outcome("Ok", Head(p.buffers), Some(Tail(p.buffers)), FALSE)
                 ELSE Outcome("Ok", ZeroedBuffer(id, size), p, TRUE)
            ELSE Outcome("ResourceAllocationError", NoBuffer, p, FALSE)
      [] strategy = "CustomEmbedded" ->
            Outcome("Ok", ZeroedBuffer(id, cfg.buffer_size), p, TRUE)

\* -------------------------------------------------- MemoryManager::deallocate
\* push_front instead of push_back
DeallocateOutcomePushFront(default, p, buffer) ==
    CASE default = "Standard" -> [result |-> "Ok", pool |-> p]
      [] default = "PoolBased" ->
            IF p.present
            THEN [result |-> "Ok", pool |-> Some(<<buffer>> \o p.buffers)]
            ELSE [result |-> "ResourceAllocationError", pool |-> p]
      [] default = "CustomEmbedded" -> [result |-> "Ok", pool |-> p]

\* an empty buffer is released instead of being put into the pool
DeallocateOutcomeDropEmpty(default, p, buffer) ==
    CASE default = "Standard" -> [result |-> "Ok", pool |-> p]
      [] default = "PoolBased" ->
            IF p.present
            THEN [result |-> "Ok",
                  pool |-> IF buffer.len = 0 THEN p ELSE Some(Append(p.buffers, buffer))]
            ELSE [result |-> "ResourceAllocationError", pool |-> p]
      [] default = "CustomEmbedded" -> [result |-> "Ok", pool |-> p]

\* the match of deallocate on the default strategy: the result and the pool afterwards
DeallocateOutcome(default, p, buffer) ==
    CASE default = "Standard" -> [result |-> "Ok", pool |-> p]
      [] default = "PoolBased" ->
            IF p.present
            THEN [result |-> "Ok", pool |-> Some(Append(p.buffers, buffer))]
            ELSE [result |-> "ResourceAllocationError", pool |-> p]
      [] default = "CustomEmbedded" -> [result |-> "Ok", pool |-> p]

\* ------------------------------------------------------------ sizing functions
UsizeMax == 2^UsizeBits - 1
UsizeHalf == UsizeMax \div 2
U8Max == 255

SizingFns == {"define_buffer_size", "define_pool_size", "define_multiplier"}
UsizeValues == {0, 1, 2, 512 * 1024, UsizeHalf - 1, UsizeHalf, UsizeHalf + 1, UsizeMax}
U8Values == {0, 1, 2, U8Max}
ArgValues(fn) == IF fn = "define_multiplier" THEN U8Values ELSE UsizeValues

\* a sizing function either returns a value or goes to the interactive prompt
Value(v) == [kind |-> "value", value |-> v]
Prompt == [kind |-> "prompt", value |-> 0]

DefineBufferSizeKiB(app, buffer_size) ==
    IF buffer_size > UsizeHalf THEN Prompt
    ELSE IF buffer_size # 0 THEN Value(buffer_size)
    ELSE Value(CASE app = "WebApp" -> 16 * 1024
                 [] app = "ApiBackend" -> 8 * 1024
                 [] app = "DesktopApp" -> 4 * 1024
                 [] app = "AutomationScript" -> 2 * 1024
                 [] app = "EmbeddedSystem" -> 512
                 [] OTHER -> 0)

\* define_buffer_size
DefineBufferSize(app, buffer_size) ==
    IF buffer_size > UsizeHalf THEN Prompt
    ELSE IF buffer_size # 0 THEN Value(buffer_size)
    ELSE Value(CASE app = "WebApp" -> 16 * 1024 * 1024
                 [] app = "ApiBackend" -> 8 * 1024 * 1024
                 [] app = "DesktopApp" -> 4 * 1024 * 1024
                 [] app = "AutomationScript" -> 2 * 1024 * 1024
                 [] app = "EmbeddedSystem" -> 512 * 1024
                 [] OTHER -> 0)

\* define_pool_size
DefinePoolSize(app, pool_size) ==
    IF pool_size > UsizeHalf THEN Prompt
    ELSE IF pool_size # 0 THEN Value(pool_size)
    ELSE Value(CASE app = "WebApp" -> 150 * 1024 * 1024
                 [] app = "ApiBackend" -> 100 * 1024 * 1024
                 [] app = "DesktopApp" -> 50 * 1024 * 1024
                 [] app = "AutomationScript" -> 30 * 1024 * 1024
                 [] app = "EmbeddedSystem" -> 5 * 1024 * 1024
                 [] OTHER -> 0)

\* define_multiplier (memory_scale is a u8, so the first branch is never taken)
DefineMultiplier(app, memory_scale) ==
    IF memory_scale > U8Max THEN Prompt
    ELSE IF memory_scale # 0 THEN Value(memory_scale)
    ELSE Value(IF app \in {"WebApp", "ApiBackend", "DesktopApp", "AutomationScript",
                           "EmbeddedSystem"}
               THEN 1 ELSE 0)

Define(fn, app, requested) ==
    CASE fn = "define_buffer_size" -> DefineBufferSize(app, requested)
      [] fn = "define_pool_size" -> DefinePoolSize(app, requested)
      [] fn = "define_multiplier" -> DefineMultiplier(app, requested)

\* the value the prompt assigns on the answer "y"
ClampValue(fn) == IF fn = "define_multiplier" THEN U8Max ELSE UsizeHalf

\* what read_line gives: a line that trims and lowercases to y, to n or to anything
\* else, or an error (the bytes read are not valid UTF-8, or the read fails)
ReadError == "read error"
StdinAnswers == {"y", "n", "other", ReadError}
ParseOk(v) == [read |-> TRUE, ok |-> TRUE, value |-> v]
ParseErr == [read |-> TRUE, ok |-> FALSE, value |-> 0]
\* read_line returned Err: there is no line to parse
ReadErr == [read |-> FALSE, ok |-> FALSE, value |-> 0]
StdinValues(fn) == {ParseOk(v) : v \in ArgValues(fn)} \cup {ParseErr, ReadErr}

SzCall(fn, app, requested) ==
    [pc |-> "idle", fn |-> fn, app |-> app, requested |-> requested, result |-> 0, reads |-> 0]
SzOff == [pc |-> "off", fn |-> "none", app |-> "Other", requested |-> 0, result |-> 0,
          reads |-> 0]

\* the body of the sizing function up to its return or to the prompt
SizingCall ==
    /\ sz.pc = "idle"
    /\ LET out == Define(sz.fn, sz.app, sz.requested)
       IN sz' = IF out.kind = "value"
                THEN [sz EXCEPT !.pc = "returned", !.result = out.value]
                ELSE [sz EXCEPT !.pc = "prompt"]
    /\ UNCHANGED <<memoryVars, conn>>

\* usize_max_value: the first read_line, the answer to [y/n]; expect panics
\* when read_line returns Err
StdinAnswer(line) ==
    /\ sz.pc = "prompt"
    /\ sz.reads < MaxReads
    /\ sz' = CASE line = ReadError ->
                    [sz EXCEPT !.pc = "panicked", !.reads = sz.reads + 1]
               [] line = "y" ->
                    [sz EXCEPT !.pc = "returned", !.result = ClampValue(sz.fn),
                               !.reads = sz.reads + 1]
               [] line = "n" -> [sz EXCEPT !.pc = "reading", !.reads = sz.reads + 1]
               [] OTHER -> [sz EXCEPT !.pc = "prompt", !.reads = sz.reads + 1]
    /\ UNCHANGED <<memoryVars, conn>>

\* usize_max_value: the second read_line, the new value, parsed; expect panics
\* when read_line returns Err
StdinValue(input) ==
    /\ sz.pc = "reading"
    /\ sz.reads < MaxReads
    /\ sz' = IF ~input.read
             THEN [sz EXCEPT !.pc = "panicked", !.reads = sz.reads + 1]
             ELSE IF input.ok
             THEN [sz EXCEPT !.pc = "returned", !.result = input.value,
                             !.reads = sz.reads + 1]
             ELSE [sz EXCEPT !.pc = "prompt", !.reads = sz.reads + 1]
    /\ UNCHANGED <<memoryVars, conn>>

\* ------------------------------------- ConnectionManager::initialize_connection
\* Option<T>: <<>> is None, <<v>> is Some(v)
ConnConfigs ==
    [max_attempts : {<<>>} \cup {<<n>> : n \in 0..MaxAttempts},
     retry_timeout : {<<>>} \cup {<<t>> : t \in 0..MaxTimeout}]

MaxAttemptsExceeded(attempts, max_attempts) == attempts > max_attempts

\* if attempts >= self.config.max_attempts.unwrap()
MaxAttemptsReached(attempts, max_attempts) == attempts >= max_attempts

\* retry_timeout.unwrap().as_secs() * (attempts as u64)
Backoff(retry_timeout, attempts) == retry_timeout * attempts

ConnCall(cfg) ==
    [pc |-> "idle", config |-> cfg, attempts |-> 0, tries |-> 0, result |-> "none",
     backoff |-> 0, waits |-> <<>>]
ConnOff == [pc |-> "off", config |-> [max_attempts |-> <<>>, retry_timeout |-> <<>>],
            attempts |-> 0, tries |-> 0, result |-> "none", backoff |-> 0,
            waits |-> <<>>]

\* let mut attempts = 0; loop {
InitializeConnection ==
    /\ conn.pc = "idle"
    /\ conn' = [conn EXCEPT !.pc = "connecting", !.attempts = 0]
    /\ UNCHANGED <<memoryVars, sz>>

\* self.connect().await returns, and the match on its result up to the next await
ConnectReturns(ok) ==
    /\ conn.pc = "connecting"
    /\ LET attempts == conn.attempts + 1
           tried == [conn EXCEPT !.tries = conn.tries + 1]
           failed == [tried EXCEPT !.attempts = attempts]
       IN conn' =
            IF ok THEN [tried EXCEPT !.pc = "returned", !.result = "Ok"]
            ELSE IF conn.config.max_attempts = <<>>
            THEN [failed EXCEPT !.pc = "panicked", !.result = "panic"]
            ELSE IF MaxAttemptsReached(attempts, conn.config.max_attempts[1])
            THEN [failed EXCEPT !.pc = "returned", !.result = "Err"]
            ELSE IF conn.config.retry_timeout = <<>>
            THEN [failed EXCEPT !.pc = "panicked", !.result = "panic"]
            ELSE [failed EXCEPT !.pc = "sleeping",
                                !.backoff = Backoff(conn.config.retry_timeout[1], attempts),
                                !.waits = Append(conn.waits,
                                    Backoff(conn.config.retry_timeout[1], attempts))]
    /\ UNCHANGED <<memoryVars, sz>>

\* sleep(Duration::from_secs(backoff)).await completes
SleepElapses ==
    /\ conn.pc = "sleeping"
    /\ conn' = [conn EXCEPT !.pc = "connecting"]
    /\ UNCHANGED <<memoryVars, sz>>

\* -------------------------------------------------------------------- calls
\* a call: its arguments, its result, and the pool as it was before the call
Call(op, strategy, size, result, buffer, before) ==
    [op |-> op, strategy |-> strategy, size |-> size, result |-> result,
     buffer |-> buffer, before |-> before]

\* a run of pairs allocate(None, _), deallocate(the buffer just returned):
\* base is the pool length before the run, n the pairs completed (2 = two or
\* more), open the id of the buffer awaiting its deallocate, grew the number of
\* pairs whose allocate found the pool empty
NoRun == [base |-> 0, n |-> 0, open |-> 0, grew |-> 0]

\* the ids of the buffers in a pool
PoolIds(p) == {p.buffers[i].id : i \in 1..Len(p.buffers)}

NoAhead == <<>>

\* the buffers of a new pool entered it in the order they were created (ids 1, 2, ...)
AheadOfNew(p) == [i \in 1..Cardinality(PoolIds(p)) |-> i]

\* the ids that entered the pool before id did and are still in it
AheadOf(a, id) == {a[j] : j \in {k \in 1..Len(a) : \A m \in 1..k : a[m] # id}}

\* a buffer leaves the pool
AheadAfterPop(a, id) == SelectSeq(a, LAMBDA x : x # id)

\* a buffer enters the pool: every buffer now in the pool is ahead of it
AheadAfterPush(a, id) == Append(a, id)

InitCommon ==
    /\ pc = "start"
    /\ app_type \in AppTypes
    /\ default_allocation_strategy = NoStrategy
    /\ pool = NoPool
    /\ memory_config = NoConfig
    /\ held = {}
    /\ fresh = 0
    /\ ret = Call("none", NoStrategy, 0, "none", NoBuffer, NoPool)
    /\ allocsOnly = 0
    /\ run = NoRun
    /\ ahead = NoAhead
    /\ overtaken = {}
    /\ net = 0
    /\ sz = SzOff
    /\ conn = ConnOff

Init == InitCommon /\ config \in MemoryConfigs

InitNew == InitCommon /\ config \in NewMemoryConfigs

New ==
    /\ pc = "start"
    /\ LET strategy == SelectStrategy(app_type) IN
       IF strategy = "Unsupported"
       THEN /\ pc' = "failed"
            /\ ret' = Call("new", NoStrategy, 0, "ConfigurationError", NoBuffer, NoPool)
            /\ UNCHANGED <<default_allocation_strategy, pool, memory_config, ahead>>
       ELSE IF NewPanics(strategy, config)
       THEN /\ pc' = "panicked"
            /\ ret' = Call("new", NoStrategy, 0, "panic", NoBuffer, NoPool)
            /\ UNCHANGED <<default_allocation_strategy, pool, memory_config, ahead>>
       ELSE /\ pc' = "ready"
            /\ ret' = Call("new", NoStrategy, 0, "Ok", NoBuffer, NoPool)
            /\ default_allocation_strategy' = strategy
            /\ pool' = BuildPool(strategy, config)
            /\ memory_config' = config
            /\ ahead' = AheadOfNew(BuildPool(strategy, config))
    /\ UNCHANGED <<app_type, config, held, fresh, allocsOnly, run, overtaken, net, sz, conn>>

NextId == InitialCount + fresh + 1

Allocate(override, size) ==
    /\ pc = "ready"
    /\ LET eff == EffectiveStrategy(override, default_allocation_strategy)
           out == AllocateOutcome(eff, pool, memory_config, size, NextId)
           continues == run.open = 0 /\ run.n > 0
           found == Len(pool.buffers)
           served == out.result = "Ok" /\ ~out.isFresh
       IN /\ out.isFresh => fresh < MaxFresh
          /\ ahead' = IF served THEN AheadAfterPop(ahead, out.buffer.id) ELSE ahead
          /\ overtaken' = IF served THEN AheadOf(ahead, out.buffer.id) ELSE {}
          /\ net' = IF served THEN net - 1 ELSE net
          /\ pool' = out.pool
          /\ default_allocation_strategy' =
                 DefaultAfterAllocate(override, default_allocation_strategy)
          /\ fresh' = IF out.isFresh THEN fresh + 1 ELSE fresh
          /\ held' = IF out.result = "Ok" THEN held \cup {out.buffer} ELSE held
          /\ ret' = Call("allocate", override, size, out.result, out.buffer, pool)
          /\ allocsOnly' = IF allocsOnly >= 0 /\ override = NoStrategy
                           THEN allocsOnly + 1 ELSE -1
          /\ run' = IF override = NoStrategy /\ out.result = "Ok"
                    THEN [base |-> IF continues THEN run.base ELSE found,
                          n |-> IF continues THEN run.n ELSE 0,
                          open |-> out.buffer.id,
                          grew |-> (IF continues THEN run.grew ELSE 0)
                                   + (IF found = 0 THEN 1 ELSE 0)]
                    ELSE NoRun
    /\ UNCHANGED <<pc, app_type, config, memory_config, sz, conn>>

Deallocate(buffer) ==
    /\ pc = "ready"
    /\ buffer \in held
    /\ LET out == DeallocateOutcome(default_allocation_strategy, pool, buffer)
       IN /\ pool' = out.pool
          /\ ret' = Call("deallocate", NoStrategy, 0, out.result, buffer, pool)
    /\ held' = held \ {buffer}
    /\ allocsOnly' = -1
    /\ run' = IF run.open = buffer.id
              THEN [run EXCEPT !.n = IF run.n = 0 THEN 1 ELSE 2, !.open = 0]
              ELSE NoRun
    /\ ahead' = IF pool.present THEN AheadAfterPush(ahead, buffer.id) ELSE ahead
    /\ overtaken' = {}
    /\ net' = net + 1
    /\ UNCHANGED <<pc, app_type, config, default_allocation_strategy, memory_config, fresh,
                   sz, conn>>

\* the caller hands deallocate a Box<[u8]> it made itself (zeroed or not)
DeallocateForeign(len, zero) ==
    /\ pc = "ready"
    /\ fresh < MaxFresh
    /\ len = 0 => zero
    /\ LET buffer == [id |-> NextId, len |-> len, zero |-> zero]
           out == DeallocateOutcome(default_allocation_strategy, pool, buffer)
       IN /\ pool' = out.pool
          /\ ret' = Call("deallocate", NoStrategy, 0, out.result, buffer, pool)
    /\ fresh' = fresh + 1
    /\ allocsOnly' = -1
    /\ run' = NoRun
    /\ ahead' = IF pool.present THEN AheadAfterPush(ahead, NextId) ELSE ahead
    /\ overtaken' = {}
    /\ net' = net + 1
    /\ UNCHANGED <<pc, app_type, config, default_allocation_strategy, memory_config, held,
                   sz, conn>>

Next ==
    \/ New
    \/ \E override \in Overrides, size \in Sizes : Allocate(override, size)
    \/ \E buffer \in held : Deallocate(buffer)
    \/ \E len \in Sizes, zero \in BOOLEAN : DeallocateForeign(len, zero)

Spec == Init /\ [][Next]_vars

\* MemoryManager::new alone, over a wider range of configurations
NextNew == New

SpecNew == InitNew /\ [][NextNew]_vars

\* the memory manager is not in use
MemoryOff ==
    /\ pc = "off"
    /\ app_type = "Other"
    /\ config = NoConfig
    /\ default_allocation_strategy = NoStrategy
    /\ pool = NoPool
    /\ memory_config = NoConfig
    /\ held = {}
    /\ fresh = 0
    /\ ret = Call("none", NoStrategy, 0, "none", NoBuffer, NoPool)
    /\ allocsOnly = 0
    /\ run = NoRun
    /\ ahead = NoAhead
    /\ overtaken = {}
    /\ net = 0

\* one call of a sizing function, with the terminal it may prompt
InitSizing ==
    /\ MemoryOff
    /\ conn = ConnOff
    /\ \E fn \in SizingFns, app \in AppTypes :
           \E requested \in ArgValues(fn) : sz = SzCall(fn, app, requested)

NextSizing ==
    \/ SizingCall
    \/ \E line \in StdinAnswers : StdinAnswer(line)
    \/ \E input \in StdinValues(sz.fn) : StdinValue(input)

SpecSizing == InitSizing /\ [][NextSizing]_vars

\* one call of initialize_connection
InitConn ==
    /\ MemoryOff
    /\ sz = SzOff
    /\ \E cfg \in ConnConfigs : conn = ConnCall(cfg)

NextConn ==
    \/ InitializeConnection
    \/ \E ok \in BOOLEAN : ConnectReturns(ok)
    \/ SleepElapses

SpecConn == InitConn /\ [][NextConn]_vars

\* every connect attempt returns and every sleep elapses
SpecConnFair == InitConn /\ [][NextConn]_vars /\ WF_vars(NextConn)

\* ------------------------------------------------------------------- claims
Ready == pc = "ready"
PoolBasedManager == Ready /\ default_allocation_strategy = "PoolBased"
RetEffective == EffectiveStrategy(ret.strategy, default_allocation_strategy)

\* C1: in every state of a constructed manager, whatever allocate and deallocate
\* calls were made, the pool is present (possibly empty) exactly when the default
\* strategy is PoolBased, and absent otherwise.
C1_PoolPresentIffPoolBased ==
    Ready => (pool.present <=> default_allocation_strategy = "PoolBased")

C1_Witness ==
    /\ PoolBasedManager
    /\ ret.op = "allocate"
    /\ Len(ret.before.buffers) > 0
    /\ pool.present
    /\ Len(pool.buffers) = 0

\* C2: for every supported application type and every configuration with
\* buffer_size > 0, new succeeds and the default strategy is PoolBased for WebApp
\* and ApiBackend, Standard for DesktopApp and AutomationScript, CustomEmbedded
\* for EmbeddedSystem.
C2_NewSelectsDocumentedStrategy ==
    (ret.op = "new" /\ app_type \in SupportedAppTypes /\ config.buffer_size > 0) =>
        /\ ret.result = "Ok"
        /\ pc = "ready"
        /\ app_type \in {"WebApp", "ApiBackend"} =>
               default_allocation_strategy = "PoolBased"
        /\ app_type \in {"DesktopApp", "AutomationScript"} =>
               default_allocation_strategy = "Standard"
        /\ app_type = "EmbeddedSystem" => default_allocation_strategy = "CustomEmbedded"

C2_Witness ==
    /\ ret.op = "new"
    /\ ret.result = "Ok"
    /\ app_type = "DesktopApp"
    /\ config.buffer_size > 0
    /\ default_allocation_strategy = "Standard"

\* C3: for an application type outside the five supported ones, new returns
\* ConfigurationError for every configuration (buffer_size 0 included), and
\* leaves no manager and no pool.
C3_UnsupportedIsConfigurationError ==
    (ret.op = "new" /\ app_type \notin SupportedAppTypes) =>
        /\ ret.result = "ConfigurationError"
        /\ pc = "failed"
        /\ default_allocation_strategy = NoStrategy
        /\ pool = NoPool
        /\ memory_config = NoConfig

C3_Witness ==
    /\ ret.op = "new"
    /\ ret.result = "ConfigurationError"
    /\ app_type \notin SupportedAppTypes
    /\ config.buffer_size = 0
    /\ config.pool_size > 0

\* C4: right after new with a PoolBased profile and buffer_size > 0 the pool is
\* present and holds exactly floor(pool_size / buffer_size) buffers, each of
\* length buffer_size; with pool_size < buffer_size it is present and empty.
C4_InitialPoolCount ==
    (ret.op = "new" /\ app_type \in {"WebApp", "ApiBackend"} /\ config.buffer_size > 0) =>
        /\ ret.result = "Ok"
        /\ pool.present
        /\ Len(pool.buffers) * config.buffer_size <= config.pool_size
        /\ config.pool_size < (Len(pool.buffers) + 1) * config.buffer_size
        /\ \A i \in 1..Len(pool.buffers) : pool.buffers[i].len = config.buffer_size
        /\ config.pool_size < config.buffer_size => Len(pool.buffers) = 0

C4_Witness ==
    /\ ret.op = "new"
    /\ ret.result = "Ok"
    /\ app_type = "ApiBackend"
    /\ config.buffer_size = 2
    /\ config.pool_size = 5
    /\ Len(pool.buffers) = 2

\* C5 as stated: on a PoolBased manager, in every reachable state, an allocate
\* with effective strategy PoolBased on a non-empty pool returns a buffer whose
\* length is the configured buffer_size.
C5_Original ==
    (PoolBasedManager /\ ret.op = "allocate" /\ RetEffective = "PoolBased"
       /\ Len(ret.before.buffers) > 0) =>
        /\ ret.result = "Ok"
        /\ ret.buffer.len = memory_config.buffer_size

\* C5 amended: such an allocate returns the buffer at the front of the pool,
\* whatever size was requested; its length is the configured buffer_size when
\* that buffer is one of those new created, and otherwise the length the buffer
\* had when deallocate placed it in the pool.
C5_ReturnsFrontBuffer ==
    (PoolBasedManager /\ ret.op = "allocate" /\ RetEffective = "PoolBased"
       /\ Len(ret.before.buffers) > 0) =>
        /\ ret.result = "Ok"
        /\ ret.buffer = Head(ret.before.buffers)
        /\ ret.buffer.id \in 1..InitialCount =>
               ret.buffer.len = memory_config.buffer_size

C5_Witness ==
    /\ PoolBasedManager
    /\ ret.op = "allocate"
    /\ RetEffective = "PoolBased"
    /\ Len(ret.before.buffers) > 1
    /\ ret.buffer.id \in 1..InitialCount
    /\ ret.size # memory_config.buffer_size
    /\ ret.buffer.len = memory_config.buffer_size

\* C6: from a fresh PoolBased manager, after exactly buffer_count allocate(None, _)
\* calls and nothing else the pool is empty, and the next allocate(None, size)
\* returns Ok with a new buffer of length size and leaves the pool empty.
C6_ExhaustionThenFallback ==
    PoolBasedManager =>
        /\ allocsOnly = InitialCount => Len(pool.buffers) = 0
        /\ allocsOnly = InitialCount + 1 =>
               /\ ret.op = "allocate"
               /\ ret.result = "Ok"
               /\ ret.buffer.len = ret.size
               /\ ret.buffer.zero
               /\ ret.buffer.id > InitialCount
               /\ Len(ret.before.buffers) = 0
               /\ Len(pool.buffers) = 0

C6_Witness ==
    /\ PoolBasedManager
    /\ InitialCount = 2
    /\ allocsOnly = InitialCount + 1
    /\ ret.size # memory_config.buffer_size
    /\ ret.buffer.len = ret.size

\* C7: on a manager whose default strategy is PoolBased, every deallocate returns
\* Ok and appends the buffer at the back of the pool, whatever its length and
\* origin; the buffers already there keep their order, the length grows by 1.
C7_DeallocateAppends ==
    (PoolBasedManager /\ ret.op = "deallocate") =>
        /\ ret.result = "Ok"
        /\ pool.present
        /\ pool.buffers = Append(ret.before.buffers, ret.buffer)
        /\ Len(pool.buffers) = Len(ret.before.buffers) + 1

C7_Witness ==
    /\ PoolBasedManager
    /\ ret.op = "deallocate"
    /\ Len(ret.before.buffers) > 0
    /\ ret.buffer.len # memory_config.buffer_size
    /\ Head(pool.buffers).len = memory_config.buffer_size
    /\ Last(pool.buffers) = ret.buffer

\* C8: on a PoolBased manager, after any number of pairs allocate(None, size),
\* deallocate(the buffer just returned) the pool is as long as before the pairs
\* if the pool was non-empty at each allocate; a pair whose allocate found the
\* pool empty makes it one longer.
C8_PairsAreNetNeutral ==
    (PoolBasedManager /\ run.n > 0 /\ run.open = 0) =>
        /\ Len(pool.buffers) = run.base + run.grew
        /\ run.grew = 0 => Len(pool.buffers) = run.base
        /\ run.base = 0 <=> run.grew = 1
        /\ run.grew \in {0, 1}

C8_Witness ==
    /\ PoolBasedManager
    /\ run.n = 2
    /\ run.open = 0
    /\ run.grew = 0
    /\ run.base = 2
    /\ Len(pool.buffers) = 2

\* C9: an override applies to its call only: whatever allocate (with any
\* override) and deallocate calls were made, the default strategy and the
\* configuration are those fixed by new, and an allocate(None, size) acts by
\* that default.
C9_OverrideIsNotPersisted ==
    Ready =>
        /\ default_allocation_strategy \in AllocationStrategy
        /\ app_type \in {"WebApp", "ApiBackend"} =>
               default_allocation_strategy = "PoolBased"
        /\ app_type \in {"DesktopApp", "AutomationScript"} =>
               default_allocation_strategy = "Standard"
        /\ app_type = "EmbeddedSystem" => default_allocation_strategy = "CustomEmbedded"
        /\ memory_config = config
        /\ (ret.op = "allocate" /\ ret.strategy = NoStrategy) =>
               /\ ret.result = "Ok"
               /\ app_type \in {"DesktopApp", "AutomationScript"} =>
                      ret.buffer.len = ret.size /\ pool = ret.before
               /\ app_type = "EmbeddedSystem" =>
                      ret.buffer.len = config.buffer_size /\ pool = ret.before
               /\ app_type \in {"WebApp", "ApiBackend"} =>
                      IF Len(ret.before.buffers) > 0
                      THEN ret.buffer = Head(ret.before.buffers)
                      ELSE ret.buffer.len = ret.size

\* an allocate(None, size) on a Standard manager made after a call that was not
\* an allocate(None, _) (here an allocate with a PoolBased override, which fails)
C9_Witness ==
    /\ Ready
    /\ app_type = "DesktopApp"
    /\ allocsOnly = -1
    /\ held = {ret.buffer}
    /\ ret.op = "allocate"
    /\ ret.strategy = NoStrategy
    /\ ret.result = "Ok"
    /\ ret.size # config.buffer_size
    /\ ret.buffer.len = ret.size

\* C10: an allocate whose effective strategy is Standard returns Ok with a new
\* zeroed buffer of exactly the requested length (0 included) and leaves the
\* pool as it was; on a manager whose default is Standard every deallocate
\* returns Ok and changes nothing in the manager.
C10_StandardAllocateAndDeallocate ==
    Ready =>
        /\ (ret.op = "allocate" /\ RetEffective = "Standard") =>
               /\ ret.result = "Ok"
               /\ ret.buffer.len = ret.size
               /\ ret.buffer.zero
               /\ ret.buffer.id > InitialCount
               /\ pool = ret.before
        /\ (ret.op = "deallocate" /\ default_allocation_strategy = "Standard") =>
               /\ ret.result = "Ok"
               /\ pool = ret.before
               /\ pool = NoPool
               /\ memory_config = config

C10_Witness ==
    /\ PoolBasedManager
    /\ ret.op = "allocate"
    /\ ret.strategy = "Standard"
    /\ ret.size = 0
    /\ memory_config.buffer_size > 0
    /\ ret.buffer.len = 0
    /\ Len(pool.buffers) > 0

\* C11: an allocate whose effective strategy is CustomEmbedded ignores the
\* requested size and returns Ok with a new buffer of the configured
\* buffer_size; on a manager whose default is CustomEmbedded deallocate does
\* nothing and returns Ok.
C11_CustomEmbeddedAllocateAndDeallocate ==
    Ready =>
        /\ (ret.op = "allocate" /\ RetEffective = "CustomEmbedded") =>
               /\ ret.result = "Ok"
               /\ ret.buffer.len = config.buffer_size
               /\ ret.buffer.zero
               /\ ret.buffer.id > InitialCount
               /\ ret.buffer.id \notin PoolIds(ret.before)
               /\ pool = ret.before
        /\ (ret.op = "deallocate" /\ default_allocation_strategy = "CustomEmbedded") =>
               /\ ret.result = "Ok"
               /\ pool = ret.before
               /\ pool = NoPool
               /\ memory_config = config

C11_Witness ==
    /\ Ready
    /\ app_type = "EmbeddedSystem"
    /\ ret.op = "allocate"
    /\ ret.strategy = NoStrategy
    /\ ret.size # config.buffer_size
    /\ ret.buffer.len = config.buffer_size
    /\ ret.buffer \in held

\* C12: no operation ends the process: for every application type and every
\* configuration, buffer_size = 0 or pool_size = 0 included, new returns a
\* manager or a ConfigurationError, and allocate and deallocate return a buffer,
\* Ok or a ResourceAllocationError.
C12_NoProcessTermination ==
    /\ pc # "panicked"
    /\ ret.result \in {"none", "Ok", "ConfigurationError", "ResourceAllocationError"}
    /\ ret.op = "new" => ret.result \in {"Ok", "ConfigurationError"}

\* the defaults of the profile table, as documented
ExpectedDefault(fn, app) ==
    CASE fn = "define_buffer_size" ->
            (CASE app = "WebApp" -> 16777216
               [] app = "ApiBackend" -> 8388608
               [] app = "DesktopApp" -> 4194304
               [] app = "AutomationScript" -> 2097152
               [] app = "EmbeddedSystem" -> 524288
               [] OTHER -> 0)
      [] fn = "define_pool_size" ->
            (CASE app = "WebApp" -> 157286400
               [] app = "ApiBackend" -> 104857600
               [] app = "DesktopApp" -> 52428800
               [] app = "AutomationScript" -> 31457280
               [] app = "EmbeddedSystem" -> 5242880
               [] OTHER -> 0)
      [] fn = "define_multiplier" ->
            (IF app \in SupportedAppTypes THEN 1 ELSE 0)

WithinSafetyBound ==
    IF sz.fn = "define_multiplier" THEN sz.requested <= 255 ELSE sz.requested <= UsizeHalf

\* C13: each sizing function returns a nonzero requested value within the
\* safety bound verbatim for every application type; for a requested value of 0
\* it returns the profile default (0 for an unsupported profile), so for a
\* supported profile the result is strictly positive.
C13_VerbatimOrProfileDefault ==
    (sz.pc \notin {"off", "idle"} /\ WithinSafetyBound) =>
        /\ sz.pc = "returned"
        /\ sz.reads = 0
        /\ sz.requested # 0 => sz.result = sz.requested
        /\ sz.requested = 0 => sz.result = ExpectedDefault(sz.fn, sz.app)
        /\ sz.app \in SupportedAppTypes => sz.result > 0
        /\ (sz.requested = 0 /\ sz.app \notin SupportedAppTypes) => sz.result = 0

C13_Witness ==
    /\ sz.pc = "returned"
    /\ sz.fn = "define_buffer_size"
    /\ sz.app = "EmbeddedSystem"
    /\ sz.requested = 0
    /\ sz.result = 512 * 1024

\* C14: when the requested buffer or pool size exceeds usize::MAX/2 the sizing
\* function fails with a SizingError: it returns no size, does not wait for
\* input, substitutes no clamped or re-entered value, and does not end the process.
C14_OverBoundIsSizingError ==
    (sz.pc \notin {"off", "idle"} /\ ~WithinSafetyBound) =>
        /\ sz.pc \notin {"prompt", "reading", "returned", "panicked"}
        /\ sz.reads = 0

AtLeastOne(n) == IF n < 1 THEN 1 ELSE n
ConnDone == conn.pc \in {"returned", "panicked"}

\* C15 as stated: initialize_connection never makes more than max_attempts
\* connect attempts, for every max_attempts value, 0 included.
C15_Original ==
    conn.config.max_attempts # <<>> => conn.tries <= conn.config.max_attempts[1]

\* C15 amended: initialize_connection returns Ok at the first successful attempt
\* and Err as soon as the failed attempts reach max_attempts; it always makes one
\* attempt, so it makes at most max(1, max_attempts) attempts, and it ends
\* whenever every connect attempt returns.
C15_RetriesUntilMaximum ==
    /\ [](conn.config.max_attempts # <<>> =>
            LET limit == AtLeastOne(conn.config.max_attempts[1]) IN
            /\ conn.tries <= limit
            /\ conn.result = "Ok" =>
                   conn.pc = "returned" /\ conn.tries = conn.attempts + 1
            /\ conn.result = "Err" =>
                   /\ conn.pc = "returned"
                   /\ conn.attempts = conn.tries
                   /\ conn.attempts = limit
            /\ conn.pc \in {"connecting", "sleeping"} =>
                   /\ conn.result = "none"
                   /\ conn.attempts = conn.tries
                   /\ conn.attempts < limit)
    /\ <>ConnDone

C15_Witness ==
    /\ conn.pc = "returned"
    /\ conn.result = "Err"
    /\ conn.config.max_attempts = <<2>>
    /\ conn.tries = 2
    /\ conn.backoff > 0

\* C21: the waits of one initialize_connection call grow exponentially in the
\* attempt number: each wait is longer than the one before (for a positive
\* retry_timeout) and consecutive waits keep one ratio, whatever the base is.
C21_ExponentialBackoff ==
    LET w == conn.waits IN
    /\ \A k \in 2..Len(w) : w[1] > 0 => w[k] > w[k - 1]
    /\ \A k \in 2..(Len(w) - 1) : w[k] * w[k] = w[k - 1] * w[k + 1]

\* C16: allocate returns ResourceAllocationError exactly when its effective
\* strategy is PoolBased and the pool is absent, that is exactly when a
\* PoolBased override is passed to a Standard or CustomEmbedded manager; every
\* other allocate returns Ok; a failing allocate changes nothing in the manager.
C16_AllocateFailsOnlyOnAbsentPool ==
    (Ready /\ ret.op = "allocate") =>
        /\ ret.result \in {"Ok", "ResourceAllocationError"}
        /\ ret.result = "ResourceAllocationError" <=>
               (RetEffective = "PoolBased" /\ ~ret.before.present)
        /\ ret.result = "ResourceAllocationError" <=>
               /\ ret.strategy = "PoolBased"
               /\ app_type \in {"DesktopApp", "AutomationScript", "EmbeddedSystem"}
        /\ ret.result = "ResourceAllocationError" =>
               /\ ret.buffer = NoBuffer
               /\ pool = ret.before
               /\ memory_config = config
               /\ default_allocation_strategy \in {"Standard", "CustomEmbedded"}
        /\ ret.result = "Ok" => ret.buffer \in held

C16_Witness ==
    /\ Ready
    /\ app_type = "EmbeddedSystem"
    /\ ret.op = "allocate"
    /\ ret.strategy = "PoolBased"
    /\ ret.result = "ResourceAllocationError"
    /\ held # {}

\* C17: on a manager built by new, deallocate returns Ok in every reachable state
\* and for every buffer: a PoolBased manager never has its pool absent.
C17_DeallocateAlwaysOk ==
    Ready =>
        /\ ret.op = "deallocate" => ret.result = "Ok"
        /\ default_allocation_strategy = "PoolBased" => pool.present

C17_Witness ==
    /\ PoolBasedManager
    /\ ret.op = "deallocate"
    /\ ret.result = "Ok"
    /\ ret.before.present
    /\ Len(ret.before.buffers) = 0
    /\ InitialCount > 0

\* the ids of the buffers in the pool, front to back
PoolOrder == [i \in 1..Len(pool.buffers) |-> pool.buffers[i].id]

\* C18: the pool is first in, first out: an allocate served from the pool takes
\* the buffer that has been there longest, so no buffer is handed out while a
\* buffer that was pooled before it is still in the pool.
C18_PoolIsFifo ==
    PoolBasedManager =>
        /\ overtaken = {}
        /\ ahead = PoolOrder

C18_Witness ==
    /\ PoolBasedManager
    /\ ret.op = "allocate"
    /\ Len(ret.before.buffers) = 2
    /\ ret.before.buffers[1].id = 2
    /\ ret.before.buffers[2].id = 1
    /\ ret.buffer.id = 2
    /\ PoolIds(pool) = {1}

HeldIds == {b.id : b \in held}
PoolBuffers == {pool.buffers[i] : i \in 1..Len(pool.buffers)}

\* C19: ownership is exclusive: no buffer is both pooled and held, none is twice
\* in the pool, the buffers held are pairwise distinct, and allocate returns
\* either a buffer taken out of the pool or a new one, never one still held.
C19_ExclusiveOwnership ==
    Ready =>
        /\ Cardinality(PoolIds(pool)) = Len(pool.buffers)
        /\ PoolIds(pool) \cap HeldIds = {}
        /\ Cardinality(HeldIds) = Cardinality(held)
        /\ (ret.op = "allocate" /\ ret.result = "Ok") =>
               /\ ret.buffer \in held
               /\ \/ ret.buffer.id \in PoolIds(ret.before)
                  \/ \A b \in (held \ {ret.buffer}) \cup PoolBuffers : b.id < ret.buffer.id

C19_Witness ==
    /\ PoolBasedManager
    /\ ret.op = "allocate"
    /\ allocsOnly = 3
    /\ Cardinality(held) = 3
    /\ Len(pool.buffers) = 0

\* C20: the pool of a PoolBased manager changes in two ways only: a PoolBased
\* allocate on a non-empty pool removes its front buffer, a deallocate adds one
\* buffer; any other allocate leaves it unchanged.  So its length is always the
\* initial buffer_count minus the allocates served from it plus the deallocates.
C20_PoolChangesOnlyByPopAndPush ==
    PoolBasedManager =>
        /\ Len(pool.buffers) = InitialCount + net
        /\ ret.op = "allocate" =>
               IF RetEffective = "PoolBased" /\ Len(ret.before.buffers) > 0
               THEN pool.buffers = Tail(ret.before.buffers)
               ELSE pool = ret.before
        /\ ret.op = "deallocate" =>
               /\ Len(pool.buffers) = Len(ret.before.buffers) + 1
               /\ PoolIds(pool) = PoolIds(ret.before) \cup {ret.buffer.id}
        /\ ret.op = "new" => Len(pool.buffers) = InitialCount

C20_Witness ==
    /\ PoolBasedManager
    /\ InitialCount = 2
    /\ net = -1
    /\ ret.op = "allocate"
    /\ ret.strategy = "CustomEmbedded"
    /\ pool = ret.before
    /\ Len(pool.buffers) = 1

====
